---- MODULE Spec2Model ----
(***************************************************************************)
(* Commerce service: idempotent entitlement grant and refund/clawback      *)
(* ledger (apps/commerce-service/src/index.ts); auth service: refresh      *)
(* tokens, account linking, progression; UGC status workflow.              *)
(*                                                                         *)
(* Every HTTP handler is a process that advances from one await to the     *)
(* next; a prisma.$transaction block is one atomic step.  Tables are       *)
(* sequences in insertion order (ids are positions, createdAt order is     *)
(* sequence order).  The redis cache maps idempotency keys to the          *)
(* JSON snapshot of an entitlement row.                                    *)
(***************************************************************************)
EXTENDS Integers, Sequences, FiniteSets, TLC

\* ------------------------------------------------------------------ bounds
MaxReq == 3        \* HTTP requests handled in one behaviour
MaxGrants == 2     \* grant requests among them
MaxQty == 2        \* largest quantity a refund item carries
MaxItems == 1      \* longest items list of a refund payload
MaxDeliveries == 2 \* deliveries of the webhook event

MaxTokens == 3     \* refresh tokens issued
MaxAuthCalls == 3  \* refresh and revoke calls answered
MaxLinkReq == 3    \* link and unlink requests
MaxSaveReq == 3    \* progression save requests
MaxUgcReq == 2     \* publish requests
MaxPath == 5       \* statuses an item goes through

Reqs == 1..MaxReq
Workers == 1..MaxDeliveries
LinkReqs == 1..MaxLinkReq
SaveReqs == 1..MaxSaveReq
UgcReqs == 1..MaxUgcReq

\* ------------------------------------------------------------- catalogue
Users == {"u1"}
Keys == {"k1", "k2"}
OrderRefs == {"O1"}
NoOrderRef == "none"
Providers == {"STEAM", "EPIC"}

SkuIds == {"sword", "gold"}

SkuType(skuId) ==
    CASE skuId = "sword" -> "durable"
      [] skuId = "gold" -> "consumable"
      [] skuId = "pass" -> "subscription"
      [] skuId = "relic" -> "durable"
      [] OTHER -> "none"

\* skus.is_active: "relic" is a SKU taken off sale.
SkuActive(skuId) == SkuType(skuId) # "none" /\ skuId # "relic"

\* SKU ids a grant may name that are not on sale: inactive, or not a SKU at all.
OffSaleSkuIds == {"relic", "ghost"}

\* An absent row (findFirst returning null, a cache miss) is the row with id 0.
NoEnt == [id |-> 0, userId |-> "", skuId |-> "", orderId |-> 0,
          status |-> "", revokedAt |-> "", revocationReason |-> ""]

Items == [skuId : SkuIds, quantity : 1..MaxQty]

RECURSIVE SeqsUpTo(_, _)
SeqsUpTo(S, n) ==
    IF n = 0 THEN {<<>>}
    ELSE LET shorter == SeqsUpTo(S, n - 1)
         IN shorter \cup {Append(s, x) : s \in {t \in shorter : Len(t) = n - 1}, x \in S}

ItemLists == SeqsUpTo(Items, MaxItems)

VARIABLES
    orders,         \* table orders
    entitlements,   \* table entitlements
    ledger,         \* table ledger_entries, in createdAt order
    audit,          \* table audit_logs
    cache,          \* redis: idempotency:{key} -> JSON of an entitlement
    req,            \* the requests: arguments, position, response
    lock,           \* redis: webhook_lock:{eventId} is set
    processed,      \* redis: webhook_processed:{eventId} is set
    single,         \* history: the order rows the event's deliveries refunded
    worker,         \* the deliveries of the webhook event: position, outcome
    tokens,         \* auth: the refresh tokens issued (token ids 1..tokens)
    revoked,        \* auth redis: the token ids with a revoked:{tokenId} key
    authLog,        \* auth history: the refresh and revoke calls answered
    account,        \* auth: the user row and its identities
    linkReq,        \* auth: the link and unlink requests
    progression,    \* auth: the user's player_progression row
    saveReq,        \* auth: the progression save requests
    ugc,            \* ugc: the item row, with the statuses it went through
    scanJob,        \* ugc: a scan_content job is queued
    ugcReq          \* ugc: the publish requests

vars == <<orders, entitlements, ledger, audit, cache, req, lock, processed, single,
          worker, tokens, revoked, authLog, account, linkReq, progression, saveReq,
          ugc, scanJob, ugcReq>>
durable == <<orders, entitlements, ledger, audit>>
hook == <<lock, processed, single, worker>>
commerce == <<durable, cache, req, hook>>
tokenv == <<tokens, revoked, authLog>>
linkv == <<account, linkReq>>
progv == <<progression, saveReq>>
ugcv == <<ugc, scanJob, ugcReq>>
platform == <<tokenv, linkv, progv, ugcv>>

\* A delivery of the event not yet received.  held, committed and retry are
\* history: it acquired the lock; its refund committed; it acquired the lock
\* after a holder had crashed with the refund committed.
IdleWorker == [pc |-> "idle", orderId |-> "", items |-> <<>>, row |-> 0, resp |-> "",
               held |-> FALSE, committed |-> FALSE, retry |-> FALSE]

\* auth: no user row yet (a user is created by its first login).
NoAccount == [registered |-> FALSE, identities |-> {}]

\* A link or unlink request not yet received; seen is the user row it read.
IdleLink == [kind |-> "none", pc |-> "idle", provider |-> "", providerId |-> "",
             seen |-> {}, resp |-> ""]

\* No player_progression row: version 0.  writer is the request that wrote
\* the row's data.
NoProgression == [version |-> 0, writer |-> 0]

\* A save request not yet received; expected 0 is an absent expectedVersion.
IdleSave == [pc |-> "idle", expected |-> 0, seen |-> 0, resp |-> "", conc |-> {}]

\* No UGC item yet.  path is history: the statuses the item went through.
NoUgc == [status |-> "none", path |-> <<>>]

IdleUgc == [pc |-> "idle", resp |-> ""]

IdleReq == [kind |-> "none", pc |-> "idle", userId |-> "", skuId |-> "",
            orderId |-> "", key |-> "", provider |-> "", items |-> <<>>,
            row |-> 0, resp |-> "", data |-> NoEnt, made |-> 0, conc |-> {},
            snap |-> <<>>]

Init ==
    /\ orders = <<>>
    /\ entitlements = <<>>
    /\ ledger = <<>>
    /\ audit = <<>>
    /\ cache = [k \in Keys |-> NoEnt]
    /\ req = [r \in Reqs |-> IdleReq]
    /\ lock = FALSE
    /\ processed = FALSE
    /\ single = <<>>
    /\ worker = [w \in Workers |-> IdleWorker]
    /\ tokens = 0
    /\ revoked = {}
    /\ authLog = <<>>
    /\ account = NoAccount
    /\ linkReq = [q \in LinkReqs |-> IdleLink]
    /\ progression = NoProgression
    /\ saveReq = [q \in SaveReqs |-> IdleSave]
    /\ ugc = NoUgc
    /\ scanJob = FALSE
    /\ ugcReq = [q \in UgcReqs |-> IdleUgc]

\* Requests arrive in slot order; the ones in flight when r arrives are r's
\* concurrent requests (history, read by no handler).
CanArrive(r) ==
    /\ req[r].pc = "idle"
    /\ \A q \in Reqs : q < r => req[q].pc # "idle"

InFlight == {q \in Reqs : req[q].pc \notin {"idle", "done"}}

Grants == {q \in Reqs : req[q].kind = "grant"}

Range(s) == {s[i] : i \in DOMAIN s}

\* ---------------------------------------------------------------- grant
\* Mutant: the handler without its look-up in the idempotency cache.
GrantCacheGet_NoCache(r) ==
    /\ CanArrive(r)
    /\ Cardinality(Grants) < MaxGrants
    /\ \E u \in Users, s \in SkuIds, o \in OrderRefs \cup {NoOrderRef}, k \in Keys :
        req' = [req EXCEPT ![r] = [IdleReq EXCEPT !.kind = "grant", !.userId = u,
                                                  !.skuId = s, !.orderId = o, !.key = k,
                                                  !.conc = InFlight, !.pc = "findExisting"]]
    /\ UNCHANGED <<durable, cache, hook, platform>>

\* redis.get(`idempotency:${key}`): a hit answers from the cache.
GrantCacheGet(r) ==
    /\ CanArrive(r)
    /\ Cardinality(Grants) < MaxGrants
    /\ \E u \in Users, s \in SkuIds, o \in OrderRefs \cup {NoOrderRef}, k \in Keys :
        LET arrived == [IdleReq EXCEPT !.kind = "grant", !.userId = u, !.skuId = s,
                                       !.orderId = o, !.key = k, !.conc = InFlight]
        IN IF cache[k].id # 0
           THEN req' = [req EXCEPT ![r] = [arrived EXCEPT !.pc = "done", !.resp = "cached",
                                                          !.data = cache[k]]]
           ELSE req' = [req EXCEPT ![r] = [arrived EXCEPT !.pc = "findExisting"]]
    /\ UNCHANGED <<durable, cache, hook, platform>>

\* prisma.entitlement.findFirst({ skuId, userId, status: 'active' })
ActiveEntitlements(u, s) ==
    {e \in Range(entitlements) : e.skuId = s /\ e.userId = u /\ e.status = "active"}

\* Mutant: the handler without its look-up of an active entitlement.
GrantFindExisting_NoLookup(r) ==
    /\ req[r].kind = "grant" /\ req[r].pc = "findExisting"
    /\ req' = [req EXCEPT ![r].pc = "tx"]
    /\ UNCHANGED <<durable, cache, hook, platform>>

GrantFindExisting(r) ==
    /\ req[r].kind = "grant" /\ req[r].pc = "findExisting"
    /\ LET found == ActiveEntitlements(req[r].userId, req[r].skuId)
       IN IF found # {}
          THEN \E e \in found :
                  req' = [req EXCEPT ![r].pc = "setExisting", ![r].data = e]
          ELSE req' = [req EXCEPT ![r].pc = "tx"]
    /\ UNCHANGED <<durable, cache, hook, platform>>

\* redis.set(key, JSON.stringify(existing)); respond with the existing row.
GrantSetExisting(r) ==
    /\ req[r].kind = "grant" /\ req[r].pc = "setExisting"
    /\ cache' = [cache EXCEPT ![req[r].key] = req[r].data]
    /\ req' = [req EXCEPT ![r].pc = "done", ![r].resp = "cached"]
    /\ UNCHANGED <<durable, hook, platform>>

\* orders.idempotency_key is UNIQUE: order.create throws on a second row.
KeyTaken(k) == \E o \in Range(orders) : o.idempotencyKey = k

NewOrder(r) ==
    [id |-> Len(orders) + 1, userId |-> req[r].userId, provider |-> "STEAM",
     providerOrderId |-> req[r].orderId, status |-> "verified",
     idempotencyKey |-> req[r].key, refundedAt |-> ""]

NewEntitlement(r, orderIdValue) ==
    [id |-> Len(entitlements) + 1, userId |-> req[r].userId, skuId |-> req[r].skuId,
     orderId |-> orderIdValue, status |-> "active", revokedAt |-> "",
     revocationReason |-> ""]

\* Mutant: the grant entry written with a balance below zero.
GrantLedgerEntry_Negative(r, entitlementId) ==
    [id |-> Len(ledger) + 1, entitlementId |-> entitlementId, userId |-> req[r].userId,
     skuId |-> req[r].skuId, changeType |-> "grant", quantity |-> 1,
     balanceAfter |-> 0 - 1]

\* Mutant: the grant entry written with the balance before the grant.
GrantLedgerEntry_BalanceBefore(r, entitlementId) ==
    [id |-> Len(ledger) + 1, entitlementId |-> entitlementId, userId |-> req[r].userId,
     skuId |-> req[r].skuId, changeType |-> "grant", quantity |-> 1, balanceAfter |-> 0]

GrantLedgerEntry(r, entitlementId) ==
    [id |-> Len(ledger) + 1, entitlementId |-> entitlementId, userId |-> req[r].userId,
     skuId |-> req[r].skuId, changeType |-> "grant", quantity |-> 1, balanceAfter |-> 1]

\* prisma.$transaction: order (when an orderId is given), entitlement, ledger entry.
GrantTx(r) ==
    /\ req[r].kind = "grant" /\ req[r].pc = "tx"
    /\ IF \/ req[r].orderId # NoOrderRef /\ KeyTaken(req[r].key)
          \/ SkuType(req[r].skuId) = "none"
       THEN \* unique violation (or entitlements.sku_id references no SKU): the
            \* transaction rolls back, the handler throws
            /\ req' = [req EXCEPT ![r].pc = "done", ![r].resp = "error"]
            /\ UNCHANGED <<durable, cache, hook, platform>>
       ELSE LET withOrder == req[r].orderId # NoOrderRef
                orderIdValue == IF withOrder THEN Len(orders) + 1 ELSE 0
                entitlement == NewEntitlement(r, orderIdValue)
            IN /\ orders' = IF withOrder THEN Append(orders, NewOrder(r)) ELSE orders
               /\ entitlements' = Append(entitlements, entitlement)
               /\ ledger' = Append(ledger, GrantLedgerEntry(r, entitlement.id))
               /\ req' = [req EXCEPT ![r].pc = "setCache", ![r].data = entitlement,
                                     ![r].made = entitlement.id]
               /\ UNCHANGED <<audit, cache, hook, platform>>

\* redis.set(key, JSON.stringify(entitlement)); respond with the new row.
GrantSetCache(r) ==
    /\ req[r].kind = "grant" /\ req[r].pc = "setCache"
    /\ cache' = [cache EXCEPT ![req[r].key] = req[r].data]
    /\ req' = [req EXCEPT ![r].pc = "done", ![r].resp = "granted"]
    /\ UNCHANGED <<durable, hook, platform>>

\* The 'EX' 86400 of redis.set: the record expires (or the cache loses it).
CacheExpire(k) ==
    /\ cache[k].id # 0
    /\ cache' = [cache EXCEPT ![k] = NoEnt]
    /\ UNCHANGED <<durable, req, hook, platform>>

\* --------------------------------------------------------------- refund
\* prisma.order.findFirst({ providerOrderId, provider }) of the webhook handlers.
OrdersOf(provider, orderRef) ==
    {o \in Range(orders) : o.providerOrderId = orderRef /\ o.provider = provider}

\* Mutant: the webhook handler without its check of status 'refunded'.
RefundFindOrder_NoStatusCheck(r) ==
    /\ CanArrive(r)
    /\ \E p \in Providers, o \in OrderRefs, u \in Users, its \in ItemLists :
        LET arrived == [IdleReq EXCEPT !.kind = "refund", !.provider = p, !.orderId = o,
                                       !.userId = u, !.items = its, !.conc = InFlight]
            found == OrdersOf(p, o)
        IN IF found = {}
           THEN req' = [req EXCEPT ![r] = [arrived EXCEPT !.pc = "done",
                                                          !.resp = "Order not found, skipped"]]
           ELSE \E existingOrder \in found :
                  req' = [req EXCEPT ![r] = [arrived EXCEPT !.pc = "handleRefund",
                                                            !.row = existingOrder.id]]
    /\ UNCHANGED <<durable, cache, hook, platform>>

\* POST /api/v1/refunds/webhook/{steam,epic} up to the call of handleRefund.
RefundFindOrder(r) ==
    /\ CanArrive(r)
    /\ \E p \in Providers, o \in OrderRefs, u \in Users, its \in ItemLists :
        LET arrived == [IdleReq EXCEPT !.kind = "refund", !.provider = p, !.orderId = o,
                                       !.userId = u, !.items = its, !.conc = InFlight]
            found == OrdersOf(p, o)
        IN IF found = {}
           THEN req' = [req EXCEPT ![r] = [arrived EXCEPT !.pc = "done",
                                                          !.resp = "Order not found, skipped"]]
           ELSE \E existingOrder \in found :
                  IF existingOrder.status = "refunded"
                  THEN req' = [req EXCEPT ![r] = [arrived EXCEPT !.pc = "done",
                                                                 !.row = existingOrder.id,
                                                                 !.resp = "Already refunded"]]
                  ELSE req' = [req EXCEPT ![r] = [arrived EXCEPT !.pc = "handleRefund",
                                                                 !.row = existingOrder.id]]
    /\ UNCHANGED <<durable, cache, hook, platform>>

\* tx.ledgerEntry.aggregate({ entitlementId, changeType }, _sum: quantity)
RECURSIVE SumQuantity(_, _, _)
SumQuantity(led, entitlementId, changeType) ==
    IF led = <<>> THEN 0
    ELSE (IF Head(led).entitlementId = entitlementId /\ Head(led).changeType = changeType
          THEN Head(led).quantity ELSE 0)
         + SumQuantity(Tail(led), entitlementId, changeType)

\* Mutant: remaining computed without the granted units.
Remaining_SpentOnly(led, entitlementId) ==
    0 - SumQuantity(led, entitlementId, "spend") - 1

\* remaining = granted - spent, as handleRefund computes it
Remaining(led, entitlementId) ==
    SumQuantity(led, entitlementId, "grant") - SumQuantity(led, entitlementId, "spend")

\* Mutant: the update without revokedAt and revocationReason.
Revoke_StatusOnly(ents, entitlementId) ==
    [i \in DOMAIN ents |->
        IF ents[i].id = entitlementId
        THEN [ents[i] EXCEPT !.status = "revoked"]
        ELSE ents[i]]

\* tx.entitlement.update({ status: 'revoked', revokedAt, revocationReason: 'refund' })
Revoke(ents, entitlementId) ==
    [i \in DOMAIN ents |->
        IF ents[i].id = entitlementId
        THEN [ents[i] EXCEPT !.status = "revoked", !.revokedAt = "now",
                             !.revocationReason = "refund"]
        ELSE ents[i]]

ClawbackEntry(led, entitlementId, userId, item) ==
    [id |-> Len(led) + 1, entitlementId |-> entitlementId, userId |-> userId,
     skuId |-> item.skuId, changeType |-> "clawback", quantity |-> 0 - item.quantity,
     balanceAfter |-> Remaining(led, entitlementId) - item.quantity]

\* Mutant: the refund corrects the entitlement's ledger entries in place.
RefundEntitlement_RewriteLedger(db, entitlementId, userId, item) ==
    [ents |-> Revoke(db.ents, entitlementId),
     led |-> [i \in DOMAIN db.led |->
                IF db.led[i].entitlementId = entitlementId
                THEN [db.led[i] EXCEPT !.balanceAfter = 0]
                ELSE db.led[i]]]

\* Mutant: the consumable branch writes the clawback and leaves the entitlement
\* active.
RefundEntitlement_ClawbackOnly(db, entitlementId, userId, item) ==
    IF SkuType(item.skuId) = "consumable"
    THEN [db EXCEPT !.led = Append(db.led, ClawbackEntry(db.led, entitlementId, userId, item))]
    ELSE [db EXCEPT !.ents = Revoke(db.ents, entitlementId)]

\* The body of the inner loop: one active entitlement of the order and the item's SKU.
\* db is the transaction's view [ents, led] of the two tables.
RefundEntitlement(db, entitlementId, userId, item) ==
    LET type == SkuType(item.skuId)
    IN CASE type = "none" -> db
         [] type = "durable" -> [db EXCEPT !.ents = Revoke(db.ents, entitlementId)]
         [] type = "consumable" ->
              IF Remaining(db.led, entitlementId) <= 0
              THEN [ents |-> Revoke(db.ents, entitlementId),
                    led |-> Append(db.led, ClawbackEntry(db.led, entitlementId, userId, item))]
              ELSE [db EXCEPT !.ents = Revoke(db.ents, entitlementId)]
         [] OTHER -> db

RECURSIVE RefundEntitlements(_, _, _, _)
RefundEntitlements(db, ids, userId, item) ==
    IF ids = <<>> THEN db
    ELSE RefundEntitlements(RefundEntitlement(db, Head(ids), userId, item),
                            Tail(ids), userId, item)

\* tx.entitlement.findMany({ orderId, skuId, status: 'active' }), as a list of ids
ActiveOfOrder(ents, orderId, skuId) ==
    SelectSeq([i \in DOMAIN ents |-> IF ents[i].orderId = orderId /\ ents[i].skuId = skuId
                                        /\ ents[i].status = "active"
                                     THEN ents[i].id ELSE 0],
              LAMBDA id : id # 0)

\* for (const item of items) { ... }
RECURSIVE RefundItems(_, _, _, _)
RefundItems(db, items, orderId, userId) ==
    IF items = <<>> THEN db
    ELSE RefundItems(
            RefundEntitlements(db, ActiveOfOrder(db.ents, orderId, Head(items).skuId),
                               userId, Head(items)),
            Tail(items), orderId, userId)

\* Mutant: the update has no where clause on the order's id.
MarkRefunded_EveryOrder(ords, orderId) ==
    [i \in DOMAIN ords |-> [ords[i] EXCEPT !.status = "refunded", !.refundedAt = "now"]]

\* Mutant: the update turns a refunded order back to verified.
MarkRefunded_Reopen(ords, orderId) ==
    [i \in DOMAIN ords |->
        IF ords[i].id = orderId
        THEN [ords[i] EXCEPT !.status = IF ords[i].status = "refunded"
                                        THEN "verified" ELSE "refunded",
                             !.refundedAt = "now"]
        ELSE ords[i]]

\* tx.order.update({ status: 'refunded', refundedAt })
MarkRefunded(ords, orderId) ==
    [i \in DOMAIN ords |->
        IF ords[i].id = orderId
        THEN [ords[i] EXCEPT !.status = "refunded", !.refundedAt = "now"]
        ELSE ords[i]]

RefundAudit(orderId, userId) ==
    [userId |-> userId, action |-> "UPDATE", resourceType |-> "order",
     resourceId |-> orderId, newValue |-> "refunded"]

\* handleRefund(order, items): one transaction.  order is the row the handler read.
HandleRefund(r) ==
    /\ req[r].kind = "refund" /\ req[r].pc = "handleRefund"
    /\ LET orderId == req[r].row
           userId == orders[orderId].userId
           db == RefundItems([ents |-> entitlements, led |-> ledger], req[r].items,
                             orderId, userId)
       IN /\ orders' = MarkRefunded(orders, orderId)
          /\ entitlements' = db.ents
          /\ ledger' = db.led
          /\ audit' = Append(audit, RefundAudit(orderId, userId))
    /\ req' = [req EXCEPT ![r].pc = "done", ![r].resp = "Refund processed successfully"]
    /\ UNCHANGED <<cache, hook, platform>>

\* ---------------------------------------------------------------- spend
\* The game spends units of a consumable entitlement: a spend entry with a
\* negative quantity and the running balance, never below zero.
RECURSIVE Balance(_, _)
Balance(led, entitlementId) ==
    IF led = <<>> THEN 0
    ELSE (IF Head(led).entitlementId = entitlementId THEN Head(led).quantity ELSE 0)
         + Balance(Tail(led), entitlementId)

Spend(e, n) ==
    /\ entitlements[e].status = "active"
    /\ SkuType(entitlements[e].skuId) = "consumable"
    /\ Balance(ledger, e) - n >= 0
    /\ ledger' = Append(ledger,
          [id |-> Len(ledger) + 1, entitlementId |-> e, userId |-> entitlements[e].userId,
           skuId |-> entitlements[e].skuId, changeType |-> "spend", quantity |-> 0 - n,
           balanceAfter |-> Balance(ledger, e) - n])
    /\ UNCHANGED <<orders, entitlements, audit, cache, req, hook, platform>>

Next ==
    \/ \E r \in Reqs : GrantCacheGet(r)
    \/ \E r \in Reqs : GrantFindExisting(r)
    \/ \E r \in Reqs : GrantSetExisting(r)
    \/ \E r \in Reqs : GrantTx(r)
    \/ \E r \in Reqs : GrantSetCache(r)
    \/ \E k \in Keys : CacheExpire(k)
    \/ \E r \in Reqs : RefundFindOrder(r)
    \/ \E r \in Reqs : HandleRefund(r)
    \/ \E e \in DOMAIN entitlements, n \in 1..MaxQty : Spend(e, n)

Spec == Init /\ [][Next]_vars

\* -------------------------------------------------------------- failures
\* The four tables as one value, for a transaction's before and after.
Tables == [ords |-> orders, ents |-> entitlements, led |-> ledger, aud |-> audit]

\* Mutant: the writes made before the throw stay (no transaction around them).
Rollback_KeepWrites(before, written) == written

\* prisma.$transaction(async (tx) => ...): a throw in the callback rolls back
\* every write the callback made.
Rollback(before, written) == before

\* What the grant transaction has written when the named statement throws.
GrantWritten(r, failing) ==
    LET withOrder == req[r].orderId # NoOrderRef
        orderIdValue == IF withOrder THEN Len(orders) + 1 ELSE 0
        ords == IF withOrder /\ failing # "order" THEN Append(orders, NewOrder(r))
                ELSE orders
        ents == IF failing = "ledger"
                THEN Append(entitlements, NewEntitlement(r, orderIdValue))
                ELSE entitlements
    IN [ords |-> ords, ents |-> ents, led |-> ledger, aud |-> audit]

\* The grant transaction throws at one of its statements (the database fails).
GrantTxAbort(r) ==
    /\ req[r].kind = "grant" /\ req[r].pc = "tx"
    /\ \E failing \in {"order", "entitlement", "ledger"} :
        /\ failing = "order" => req[r].orderId # NoOrderRef
        /\ LET t == Rollback(Tables, GrantWritten(r, failing))
           IN /\ orders' = t.ords
              /\ entitlements' = t.ents
              /\ ledger' = t.led
              /\ audit' = t.aud
    /\ req' = [req EXCEPT ![r].pc = "done", ![r].resp = "error: tx"]
    /\ UNCHANGED <<cache, hook, platform>>

\* What handleRefund has written when it throws after `n` of its statements:
\* 0 is the order update, i the i-th item, Len(items) + 1 the audit record.
RefundWritten(orderId, items, n) ==
    LET userId == orders[orderId].userId
        db == RefundItems([ents |-> entitlements, led |-> ledger],
                          SubSeq(items, 1, n - 1), orderId, userId)
    IN IF n = 0 THEN Tables
       ELSE [ords |-> MarkRefunded(orders, orderId), ents |-> db.ents, led |-> db.led,
             aud |-> audit]

\* handleRefund throws inside its transaction; the webhook handler rethrows.
HandleRefundAbort(r) ==
    /\ req[r].kind = "refund" /\ req[r].pc = "handleRefund"
    /\ \E n \in 0..(Len(req[r].items) + 1) :
        /\ LET t == Rollback(Tables, RefundWritten(req[r].row, req[r].items, n))
           IN /\ orders' = t.ords
              /\ entitlements' = t.ents
              /\ ledger' = t.led
              /\ audit' = t.aud
        /\ req' = [req EXCEPT ![r].pc = "done",
                              ![r].resp = IF n = Len(req[r].items) + 1
                                          THEN "error: audit" ELSE "error: tx"]
    /\ UNCHANGED <<cache, hook, platform>>

\* redis.get rejects (the cache is unreachable): the handler throws.
GrantCacheGetFail(r) ==
    /\ CanArrive(r)
    /\ Cardinality(Grants) < MaxGrants
    /\ \E u \in Users, s \in SkuIds, o \in OrderRefs \cup {NoOrderRef}, k \in Keys :
        req' = [req EXCEPT ![r] = [IdleReq EXCEPT !.kind = "grant", !.userId = u,
                                                  !.skuId = s, !.orderId = o, !.key = k,
                                                  !.conc = InFlight, !.pc = "done",
                                                  !.resp = "error: redis"]]
    /\ UNCHANGED <<durable, cache, hook, platform>>

\* redis.set rejects after the look-up or after the committed transaction.
GrantCacheSetFail(r) ==
    /\ req[r].kind = "grant" /\ req[r].pc \in {"setExisting", "setCache"}
    /\ req' = [req EXCEPT ![r].pc = "done", ![r].resp = "error: redis"]
    /\ UNCHANGED <<durable, cache, hook, platform>>

NextFail ==
    \/ Next
    \/ \E r \in Reqs : GrantTxAbort(r)
    \/ \E r \in Reqs : HandleRefundAbort(r)
    \/ \E r \in Reqs : GrantCacheGetFail(r)
    \/ \E r \in Reqs : GrantCacheSetFail(r)

SpecFail == Init /\ [][NextFail]_vars

\* ------------------------------------------------------------- catalogue
\* A grant request naming a SKU that is inactive or does not exist: the
\* handler reads no SKU row, so it proceeds as for any other SKU id.
GrantOffSale(r) ==
    /\ CanArrive(r)
    /\ Cardinality(Grants) < MaxGrants
    /\ \E u \in Users, s \in OffSaleSkuIds, o \in OrderRefs \cup {NoOrderRef}, k \in Keys :
        LET arrived == [IdleReq EXCEPT !.kind = "grant", !.userId = u, !.skuId = s,
                                       !.orderId = o, !.key = k, !.conc = InFlight]
        IN IF cache[k].id # 0
           THEN req' = [req EXCEPT ![r] = [arrived EXCEPT !.pc = "done", !.resp = "cached",
                                                          !.data = cache[k]]]
           ELSE req' = [req EXCEPT ![r] = [arrived EXCEPT !.pc = "findExisting"]]
    /\ UNCHANGED <<durable, cache, hook, platform>>

NextCatalogue ==
    \/ \E r \in Reqs : GrantOffSale(r)
    \/ \E r \in Reqs : GrantCacheGet(r)
    \/ \E r \in Reqs : GrantFindExisting(r)
    \/ \E r \in Reqs : GrantSetExisting(r)
    \/ \E r \in Reqs : GrantTx(r)
    \/ \E r \in Reqs : GrantSetCache(r)
    \/ \E k \in Keys : CacheExpire(k)

SpecCatalogue == Init /\ [][NextCatalogue]_vars

\* ---------------------------------------------------------- manual refund
\* prisma.orderItem.findMany({ orderId }): no handler of the service writes an
\* order item (the grant's order.create passes none), so the table is empty.
OrderItemsOf(orderId) == <<>>

\* Mutant: the admin handler without its check of status 'refunded'.
ManualFindOrder_NoConflictCheck(r) ==
    /\ CanArrive(r)
    /\ \E id \in 1..MaxGrants :
        LET arrived == [IdleReq EXCEPT !.kind = "manual", !.row = id, !.conc = InFlight]
        IN IF id \notin DOMAIN orders
           THEN req' = [req EXCEPT ![r] = [arrived EXCEPT !.pc = "done",
                                                          !.resp = "NotFoundError"]]
           ELSE req' = [req EXCEPT ![r] = [arrived EXCEPT !.pc = "handleRefund",
                                                          !.items = OrderItemsOf(id)]]
    /\ UNCHANGED <<durable, cache, hook, platform>>

\* POST /api/v1/admin/refunds/manual up to the call of handleRefund.  body.orderId
\* is the id of the order row.  The read of the order's items is folded into
\* this step: nothing writes that table.
ManualFindOrder(r) ==
    /\ CanArrive(r)
    /\ \E id \in 1..MaxGrants :
        LET arrived == [IdleReq EXCEPT !.kind = "manual", !.row = id, !.conc = InFlight]
        IN IF id \notin DOMAIN orders
           THEN req' = [req EXCEPT ![r] = [arrived EXCEPT !.pc = "done",
                                                          !.resp = "NotFoundError"]]
           ELSE IF orders[id].status = "refunded"
                THEN req' = [req EXCEPT ![r] = [arrived EXCEPT !.pc = "done",
                                                               !.resp = "ConflictError"]]
                ELSE req' = [req EXCEPT ![r] = [arrived EXCEPT !.pc = "handleRefund",
                                                               !.items = OrderItemsOf(id)]]
    /\ UNCHANGED <<durable, cache, hook, platform>>

\* handleRefund(order, items) called by the admin handler: the same transaction.
ManualHandleRefund(r) ==
    /\ req[r].kind = "manual" /\ req[r].pc = "handleRefund"
    /\ LET orderId == req[r].row
           userId == orders[orderId].userId
           db == RefundItems([ents |-> entitlements, led |-> ledger], req[r].items,
                             orderId, userId)
       IN /\ orders' = MarkRefunded(orders, orderId)
          /\ entitlements' = db.ents
          /\ ledger' = db.led
          /\ audit' = Append(audit, RefundAudit(orderId, userId))
    /\ req' = [req EXCEPT ![r].pc = "done", ![r].resp = "Manual refund processed"]
    /\ UNCHANGED <<cache, hook, platform>>

NextAdmin ==
    \/ Next
    \/ \E r \in Reqs : ManualFindOrder(r)
    \/ \E r \in Reqs : ManualHandleRefund(r)

SpecAdmin == Init /\ [][NextAdmin]_vars

\* ------------------------------------------- refund transaction, by statement
\* handleRefund's transaction names no isolation level, so every statement of
\* it reads what is committed when the statement runs.  The transaction is
\* taken in two steps: its reads, then its writes and the commit; a spend may
\* commit in between.  req[r].snap is the ledger as the aggregates read it.

\* Another refund transaction holds the row lock of the order's update.
OrderRowLocked(orderId) ==
    \E q \in Reqs : req[q].pc = "refundWrites" /\ req[q].row = orderId

\* tx.order.update, tx.entitlement.findMany and the two tx.ledgerEntry.aggregate
HandleRefundRead(r) ==
    /\ req[r].kind = "refund" /\ req[r].pc = "handleRefund"
    /\ ~OrderRowLocked(req[r].row)
    /\ req' = [req EXCEPT ![r].pc = "refundWrites", ![r].snap = ledger]
    /\ UNCHANGED <<durable, cache, hook, platform>>

\* The entries a transaction appended to its view, numbered after the
\* committed ledger.
Appended(led, before, after) ==
    led \o [i \in 1..(Len(after) - Len(before)) |->
              [after[Len(before) + i] EXCEPT !.id = Len(led) + i]]

\* tx.ledgerEntry.create, tx.entitlement.update, tx.auditLog.create and the commit
HandleRefundCommit(r) ==
    /\ req[r].kind = "refund" /\ req[r].pc = "refundWrites"
    /\ LET orderId == req[r].row
           userId == orders[orderId].userId
           db == RefundItems([ents |-> entitlements, led |-> req[r].snap], req[r].items,
                             orderId, userId)
       IN /\ orders' = MarkRefunded(orders, orderId)
          /\ entitlements' = db.ents
          /\ ledger' = Appended(ledger, req[r].snap, db.led)
          /\ audit' = Append(audit, RefundAudit(orderId, userId))
    /\ req' = [req EXCEPT ![r].pc = "done", ![r].resp = "Refund processed successfully"]
    /\ UNCHANGED <<cache, hook, platform>>

NextIsolation ==
    \/ \E r \in Reqs : GrantCacheGet(r)
    \/ \E r \in Reqs : GrantFindExisting(r)
    \/ \E r \in Reqs : GrantSetExisting(r)
    \/ \E r \in Reqs : GrantTx(r)
    \/ \E r \in Reqs : GrantSetCache(r)
    \/ \E k \in Keys : CacheExpire(k)
    \/ \E r \in Reqs : RefundFindOrder(r)
    \/ \E r \in Reqs : HandleRefundRead(r)
    \/ \E r \in Reqs : HandleRefundCommit(r)
    \/ \E e \in DOMAIN entitlements, n \in 1..MaxQty : Spend(e, n)

SpecIsolation == Init /\ [][NextIsolation]_vars

\* ------------------------------------------------------- webhook lock
\* handleWebhook of one event id.  Every delivery of the event carries the same
\* payload; processWebhookEvent is the Steam refund handler.
InFn == {"checkProcessed", "findOrder", "handleRefund", "markProcessed", "release"}

Received == {v \in Workers : worker[v].pc # "idle"}

\* body.items of the event: the refunded SKUs, one unit of each.
EventItems == {its \in ItemLists : \A i \in DOMAIN its : its[i].quantity = 1}

\* redis.set(lockKey, '1', 'NX', 'EX', 60), and `return` when it is refused.
HookAcquire(w) ==
    /\ worker[w].pc = "idle"
    /\ \A v \in Workers : v < w => worker[v].pc # "idle"
    /\ \E o \in OrderRefs, its \in EventItems :
        /\ \A v \in Received : worker[v].orderId = o /\ worker[v].items = its
        /\ LET arrived == [IdleWorker EXCEPT !.orderId = o, !.items = its]
           IN IF lock
              THEN /\ worker' = [worker EXCEPT ![w] = [arrived EXCEPT !.pc = "done",
                                                                     !.resp = "undefined"]]
                   /\ lock' = lock
              ELSE /\ worker' = [worker EXCEPT ![w] =
                          [arrived EXCEPT !.pc = "checkProcessed", !.held = TRUE,
                                          !.retry = \E v \in Workers :
                                                       /\ worker[v].pc = "crashed"
                                                       /\ worker[v].committed]]
                   /\ lock' = TRUE
    /\ UNCHANGED <<durable, cache, req, processed, single, platform>>

\* redis.get(`webhook_processed:${eventId}`): a hit returns through `finally`.
HookCheckProcessed(w) ==
    /\ worker[w].pc = "checkProcessed"
    /\ worker' = [worker EXCEPT ![w].pc = IF processed THEN "release" ELSE "findOrder",
                                ![w].resp = "undefined"]
    /\ UNCHANGED <<durable, cache, req, lock, processed, single, platform>>

\* processWebhookEvent: the refund handler up to the call of handleRefund.
HookFindOrder(w) ==
    /\ worker[w].pc = "findOrder"
    /\ LET found == OrdersOf("STEAM", worker[w].orderId)
       IN IF found = {}
          THEN worker' = [worker EXCEPT ![w].pc = "markProcessed"]
          ELSE \E existingOrder \in found :
                 IF existingOrder.status = "refunded"
                 THEN worker' = [worker EXCEPT ![w].pc = "markProcessed",
                                               ![w].row = existingOrder.id]
                 ELSE worker' = [worker EXCEPT ![w].pc = "handleRefund",
                                               ![w].row = existingOrder.id]
    /\ UNCHANGED <<durable, cache, req, lock, processed, single, platform>>

\* processWebhookEvent: handleRefund(existingOrder, body.items), one transaction.
HookHandleRefund(w) ==
    /\ worker[w].pc = "handleRefund"
    /\ LET orderId == worker[w].row
           userId == orders[orderId].userId
           db == RefundItems([ents |-> entitlements, led |-> ledger], worker[w].items,
                             orderId, userId)
       IN /\ orders' = MarkRefunded(orders, orderId)
          /\ entitlements' = db.ents
          /\ ledger' = db.led
          /\ audit' = Append(audit, RefundAudit(orderId, userId))
          /\ single' = Append(single, orderId)
    /\ worker' = [worker EXCEPT ![w].pc = "markProcessed", ![w].committed = TRUE]
    /\ UNCHANGED <<cache, req, lock, processed, platform>>

\* processWebhookEvent throws: handleRefund's transaction rolls back, and the
\* throw passes through the `finally` block.
HookHandleRefundAbort(w) ==
    /\ worker[w].pc = "handleRefund"
    /\ \E n \in 0..(Len(worker[w].items) + 1) :
        LET t == Rollback(Tables, RefundWritten(worker[w].row, worker[w].items, n))
        IN /\ orders' = t.ords
           /\ entitlements' = t.ents
           /\ ledger' = t.led
           /\ audit' = t.aud
    /\ worker' = [worker EXCEPT ![w].pc = "release", ![w].resp = "error: tx"]
    /\ UNCHANGED <<cache, req, lock, processed, single, platform>>

\* redis.set(`webhook_processed:${eventId}`, '1', 'EX', 86400 * 7)
HookMarkProcessed(w) ==
    /\ worker[w].pc = "markProcessed"
    /\ processed' = TRUE
    /\ worker' = [worker EXCEPT ![w].pc = "release"]
    /\ UNCHANGED <<durable, cache, req, lock, single, platform>>

\* finally { redis.del(lockKey) }: the key is deleted whoever set it.
HookRelease(w) ==
    /\ worker[w].pc = "release"
    /\ lock' = FALSE
    /\ worker' = [worker EXCEPT ![w].pc = "done"]
    /\ UNCHANGED <<durable, cache, req, processed, single, platform>>

\* The process handling the delivery dies inside the try block or before the
\* del: an open transaction is rolled back by the database, the key stays.
HookCrash(w) ==
    /\ worker[w].pc \in InFn
    /\ worker' = [worker EXCEPT ![w].pc = "crashed"]
    /\ UNCHANGED <<durable, cache, req, lock, processed, single, platform>>

\* 'EX', 60: redis drops the lock key when its time to live has passed.
LockExpire ==
    /\ lock
    /\ lock' = FALSE
    /\ UNCHANGED <<durable, cache, req, processed, single, worker, platform>>

\* The provider sends the refund event once the purchases are complete.
NextLock ==
    \/ \E r \in Reqs : GrantCacheGet(r) /\ Received = {}
    \/ \E r \in Reqs : GrantFindExisting(r)
    \/ \E r \in Reqs : GrantSetExisting(r)
    \/ \E r \in Reqs : GrantTx(r)
    \/ \E r \in Reqs : GrantSetCache(r)
    \/ \E w \in Workers : HookAcquire(w) /\ InFlight = {}
    \/ \E w \in Workers : HookCheckProcessed(w)
    \/ \E w \in Workers : HookFindOrder(w)
    \/ \E w \in Workers : HookHandleRefund(w)
    \/ \E w \in Workers : HookHandleRefundAbort(w)
    \/ \E w \in Workers : HookMarkProcessed(w)
    \/ \E w \in Workers : HookRelease(w)
    \/ \E w \in Workers : HookCrash(w)
    \/ LockExpire

SpecLock == Init /\ [][NextLock]_vars

\* redis expires a key whose time to live has passed.
SpecLockFair == SpecLock /\ WF_vars(LockExpire)

\* ------------------------------------------------- auth: refresh tokens
\* A refresh token is the JWT that carries its token id; the ids the service
\* signed are 1..tokens, any other id is a token jwt.verify rejects.
TokenIds == 1..MaxTokens

\* steam/epic login: generateRefreshToken(user.id) signs a token with a new id.
AuthLogin ==
    /\ tokens < MaxTokens
    /\ tokens' = tokens + 1
    /\ UNCHANGED <<commerce, revoked, authLog, linkv, progv, ugcv>>

\* POST /api/v1/auth/refresh: jwt.verify, the user row, then a new access
\* token and a new refresh token.  No step reads revoked:{tokenId}.
AuthRefresh(t) ==
    /\ Len(authLog) < MaxAuthCalls
    /\ IF t > tokens
       THEN /\ authLog' = Append(authLog, [op |-> "refresh", token |-> t,
                                           resp |-> "UnauthorizedError", issued |-> 0])
            /\ tokens' = tokens
       ELSE /\ tokens < MaxTokens
            /\ tokens' = tokens + 1
            /\ authLog' = Append(authLog, [op |-> "refresh", token |-> t,
                                           resp |-> "ok", issued |-> tokens + 1])
    /\ UNCHANGED <<commerce, revoked, linkv, progv, ugcv>>

\* POST /api/v1/auth/revoke: jwt.verify, then redis.setex(`revoked:${tokenId}`).
AuthRevoke(t) ==
    /\ Len(authLog) < MaxAuthCalls
    /\ IF t > tokens
       THEN /\ authLog' = Append(authLog, [op |-> "revoke", token |-> t,
                                           resp |-> "UnauthorizedError", issued |-> 0])
            /\ revoked' = revoked
       ELSE /\ revoked' = revoked \cup {t}
            /\ authLog' = Append(authLog, [op |-> "revoke", token |-> t,
                                           resp |-> "Token revoked successfully",
                                           issued |-> 0])
    /\ UNCHANGED <<commerce, tokens, linkv, progv, ugcv>>

\* setex(..., 86400, ...): the revoked key expires.
RevokedExpire(t) ==
    /\ t \in revoked
    /\ revoked' = revoked \ {t}
    /\ UNCHANGED <<commerce, tokens, authLog, linkv, progv, ugcv>>

NextToken ==
    \/ AuthLogin
    \/ \E t \in TokenIds : AuthRefresh(t)
    \/ \E t \in TokenIds : AuthRevoke(t)
    \/ \E t \in TokenIds : RevokedExpire(t)

SpecToken == Init /\ [][NextToken]_vars

\* ------------------------------------------- auth: link and unlink
\* The accounts a player may hold at a provider.
ProviderIds == {"a", "b"}

LinkCanArrive(q) ==
    /\ account.registered
    /\ linkReq[q].pc = "idle"
    /\ \A o \in LinkReqs : o < q => linkReq[o].pc # "idle"

OfProvider(ids, provider) == {x \in ids : x.provider = provider}

\* steam/epic login of an identity no user has: user.create with the identity.
LinkLogin ==
    /\ ~account.registered
    /\ \E p \in Providers, i \in ProviderIds :
        account' = [registered |-> TRUE,
                    identities |-> {[provider |-> p, providerId |-> i]}]
    /\ UNCHANGED <<commerce, tokenv, linkReq, progv, ugcv>>

\* POST /api/v1/auth/link/{steam,epic}: the user row with its identities, the
\* check of the provider, and the ticket verified by the provider.
LinkRead(q) ==
    /\ LinkCanArrive(q)
    /\ \E p \in Providers, i \in ProviderIds, authenticated \in BOOLEAN :
        LET arrived == [IdleLink EXCEPT !.kind = "link", !.provider = p,
                                        !.providerId = i, !.seen = account.identities]
        IN linkReq' = [linkReq EXCEPT ![q] =
              IF OfProvider(account.identities, p) # {}
              THEN [arrived EXCEPT !.pc = "done", !.resp = "ConflictError"]
              ELSE IF ~authenticated
                   THEN [arrived EXCEPT !.pc = "done", !.resp = "UnauthorizedError"]
                   ELSE [arrived EXCEPT !.pc = "findIdentity"]]
    /\ UNCHANGED <<commerce, tokenv, account, progv, ugcv>>

\* prisma.identity.findUnique({ provider_providerId })
LinkFindIdentity(q) ==
    /\ linkReq[q].kind = "link" /\ linkReq[q].pc = "findIdentity"
    /\ LET id == [provider |-> linkReq[q].provider, providerId |-> linkReq[q].providerId]
       IN linkReq' = [linkReq EXCEPT ![q] =
             IF id \in account.identities
             THEN [@ EXCEPT !.pc = "done", !.resp = "ConflictError"]
             ELSE [@ EXCEPT !.pc = "create"]]
    /\ UNCHANGED <<commerce, tokenv, account, progv, ugcv>>

\* prisma.identity.create (UNIQUE(provider, provider_id)), then the account
\* link and the audit record.
LinkCreate(q) ==
    /\ linkReq[q].kind = "link" /\ linkReq[q].pc = "create"
    /\ LET id == [provider |-> linkReq[q].provider, providerId |-> linkReq[q].providerId]
       IN IF id \in account.identities
          THEN /\ linkReq' = [linkReq EXCEPT ![q].pc = "done", ![q].resp = "error"]
               /\ account' = account
          ELSE /\ account' = [account EXCEPT !.identities = @ \cup {id}]
               /\ linkReq' = [linkReq EXCEPT ![q].pc = "done", ![q].resp = "linked"]
    /\ UNCHANGED <<commerce, tokenv, progv, ugcv>>

\* DELETE /api/v1/auth/unlink/:provider up to the deleteMany.
UnlinkRead(q) ==
    /\ LinkCanArrive(q)
    /\ \E p \in Providers :
        LET arrived == [IdleLink EXCEPT !.kind = "unlink", !.provider = p,
                                        !.seen = account.identities]
        IN linkReq' = [linkReq EXCEPT ![q] =
              IF OfProvider(account.identities, p) = {}
              THEN [arrived EXCEPT !.pc = "done", !.resp = "NotFoundError"]
              ELSE IF Cardinality(account.identities) = 1
                   THEN [arrived EXCEPT !.pc = "done", !.resp = "ForbiddenError"]
                   ELSE [arrived EXCEPT !.pc = "delete"]]
    /\ UNCHANGED <<commerce, tokenv, account, progv, ugcv>>

\* prisma.identity.deleteMany({ userId, provider }), then the audit record.
UnlinkDelete(q) ==
    /\ linkReq[q].kind = "unlink" /\ linkReq[q].pc = "delete"
    /\ account' = [account EXCEPT
                      !.identities = @ \ OfProvider(@, linkReq[q].provider)]
    /\ linkReq' = [linkReq EXCEPT ![q].pc = "done", ![q].resp = "unlinked"]
    /\ UNCHANGED <<commerce, tokenv, progv, ugcv>>

NextLink ==
    \/ LinkLogin
    \/ \E q \in LinkReqs : LinkRead(q)
    \/ \E q \in LinkReqs : LinkFindIdentity(q)
    \/ \E q \in LinkReqs : LinkCreate(q)
    \/ \E q \in LinkReqs : UnlinkRead(q)
    \/ \E q \in LinkReqs : UnlinkDelete(q)

SpecLink == Init /\ [][NextLink]_vars

\* ---------------------------------------------- auth: progression
\* body.expectedVersion: a version number, or 0 for a body without it.
ExpectedVersions == 0..MaxSaveReq

SavesInFlight == {o \in SaveReqs : saveReq[o].pc \notin {"idle", "done"}}

\* POST /api/v1/progression/:userId: findUnique and the version check.
SaveRead(q) ==
    /\ saveReq[q].pc = "idle"
    /\ \A o \in SaveReqs : o < q => saveReq[o].pc # "idle"
    /\ \E expectedVersion \in ExpectedVersions :
        LET arrived == [IdleSave EXCEPT !.expected = expectedVersion,
                                        !.seen = progression.version,
                                        !.conc = SavesInFlight]
        IN saveReq' = [saveReq EXCEPT ![q] =
              IF progression.version = 0
              THEN [arrived EXCEPT !.pc = "create"]
              ELSE IF expectedVersion # 0 /\ progression.version # expectedVersion
                   THEN [arrived EXCEPT !.pc = "done", !.resp = "ConflictError"]
                   ELSE [arrived EXCEPT !.pc = "update"]]
    /\ UNCHANGED <<commerce, tokenv, linkv, progression, ugcv>>

\* prisma.playerProgression.create({ userId, version: 1 }); userId is unique.
SaveCreate(q) ==
    /\ saveReq[q].pc = "create"
    /\ IF progression.version # 0
       THEN /\ saveReq' = [saveReq EXCEPT ![q].pc = "done", ![q].resp = "error"]
            /\ progression' = progression
       ELSE /\ progression' = [version |-> 1, writer |-> q]
            /\ saveReq' = [saveReq EXCEPT ![q].pc = "done", ![q].resp = "created"]
    /\ UNCHANGED <<commerce, tokenv, linkv, ugcv>>

\* prisma.playerProgression.update({ version: existing.version + 1, ...body })
SaveUpdate(q) ==
    /\ saveReq[q].pc = "update"
    /\ progression' = [version |-> saveReq[q].seen + 1, writer |-> q]
    /\ saveReq' = [saveReq EXCEPT ![q].pc = "done", ![q].resp = "updated"]
    /\ UNCHANGED <<commerce, tokenv, linkv, ugcv>>

NextSave ==
    \/ \E q \in SaveReqs : SaveRead(q)
    \/ \E q \in SaveReqs : SaveCreate(q)
    \/ \E q \in SaveReqs : SaveUpdate(q)

SpecSave == Init /\ [][NextSave]_vars

\* ---------------------------------------------------- ugc: status
\* update({ status }): the item with its new status, recorded in its path.
SetStatus(item, status) == [status |-> status, path |-> Append(item.path, status)]

\* body.action of the moderation endpoint and the status it sets.
ModerationStatus(action) ==
    CASE action = "approve" -> "published"
      [] action = "reject" -> "removed"
      [] action = "flag" -> "flagged"

\* POST /api/v1/ugc/upload: uGCItem.create with status 'draft'.
UgcUpload ==
    /\ ugc.status = "none"
    /\ ugc' = SetStatus(ugc, "draft")
    /\ UNCHANGED <<commerce, tokenv, linkv, progv, scanJob, ugcReq>>

\* POST /api/v1/ugc/:ugcId/publish: findFirst and the checks.
PublishRead(q) ==
    /\ ugcReq[q].pc = "idle"
    /\ \A o \in UgcReqs : o < q => ugcReq[o].pc # "idle"
    /\ \E checksumMatches \in BOOLEAN :
        ugcReq' = [ugcReq EXCEPT ![q] =
           IF ugc.status = "none" THEN [pc |-> "done", resp |-> "NotFoundError"]
           ELSE IF ugc.status # "draft" \/ ~checksumMatches
                THEN [pc |-> "done", resp |-> "BadRequestError"]
                ELSE [pc |-> "update", resp |-> ""]]
    /\ UNCHANGED <<commerce, tokenv, linkv, progv, ugc, scanJob>>

\* uGCItem.update({ status: 'scanning' }); the scan_content job is queued.
PublishUpdate(q) ==
    /\ ugcReq[q].pc = "update"
    /\ Len(ugc.path) < MaxPath
    /\ ugc' = SetStatus(ugc, "scanning")
    /\ scanJob' = TRUE
    /\ ugcReq' = [ugcReq EXCEPT ![q] = [pc |-> "done", resp |-> "scanning"]]
    /\ UNCHANGED <<commerce, tokenv, linkv, progv>>

\* scanContent(job): updateUGCStatus to pending_review, or to flagged.
ScanContent ==
    /\ scanJob
    /\ Len(ugc.path) < MaxPath
    /\ \E status \in {"pending_review", "flagged"} : ugc' = SetStatus(ugc, status)
    /\ scanJob' = FALSE
    /\ UNCHANGED <<commerce, tokenv, linkv, progv, ugcReq>>

\* PUT /api/v1/admin/ugc/:ugcId/moderate: findUnique (the item exists), then
\* the update of the status in a transaction with the audit record.
Moderate(action) ==
    /\ ugc.status # "none"
    /\ Len(ugc.path) < MaxPath
    /\ ugc' = SetStatus(ugc, ModerationStatus(action))
    /\ UNCHANGED <<commerce, tokenv, linkv, progv, scanJob, ugcReq>>

NextUgc ==
    \/ UgcUpload
    \/ \E q \in UgcReqs : PublishRead(q)
    \/ \E q \in UgcReqs : PublishUpdate(q)
    \/ ScanContent
    \/ \E action \in {"approve", "reject", "flag"} : Moderate(action)

SpecUgc == Init /\ [][NextUgc]_vars

\* ======================================================= properties
Done(r) == req[r].pc = "done"

SameGrant(p, q) ==
    /\ req[p].kind = "grant" /\ req[q].kind = "grant"
    /\ req[p].userId = req[q].userId /\ req[p].skuId = req[q].skuId
    /\ req[p].orderId = req[q].orderId /\ req[p].key = req[q].key

GrantEntries(ids) ==
    {i \in DOMAIN ledger : ledger[i].entitlementId \in ids /\ ledger[i].changeType = "grant"}

ClawbacksOf(led, e) ==
    {i \in DOMAIN led : led[i].entitlementId = e /\ led[i].changeType = "clawback"}

\* C1: two grant requests with identical (userId, skuId, orderRef, key) that
\* run concurrently leave exactly one entitlement and exactly one grant
\* ledger entry made by them.
C1_IdempotentGrant ==
    \A p \in Reqs, q \in Reqs :
        (p < q /\ SameGrant(p, q) /\ p \in req[q].conc /\ Done(p) /\ Done(q)) =>
            LET made == {req[p].made, req[q].made} \ {0}
            IN Cardinality(made) = 1 /\ Cardinality(GrantEntries(made)) = 1

\* C2: every user has at most one active entitlement of every durable SKU.
C2_OneActiveDurable ==
    \A u \in Users, s \in SkuIds :
        SkuType(s) = "durable" => Cardinality(ActiveEntitlements(u, s)) <= 1

\* C3: a grant of a durable SKU that finds the user's active entitlement of it
\* answers with that entitlement and writes no order, entitlement or ledger entry.
C3_AlreadyOwned ==
    [][\A r \in Reqs :
          /\ (/\ req[r].kind = "grant" /\ req[r].pc = "findExisting"
              /\ SkuType(req[r].skuId) = "durable"
              /\ ActiveEntitlements(req[r].userId, req[r].skuId) # {}
              /\ req'[r] # req[r])
             => /\ req'[r].pc = "setExisting"
                /\ req'[r].data \in ActiveEntitlements(req[r].userId, req[r].skuId)
                /\ req'[r].made = 0
                /\ UNCHANGED durable
          /\ (req[r].kind = "grant" /\ req[r].pc = "setExisting" /\ req'[r] # req[r])
             => /\ req'[r].pc = "done" /\ req'[r].resp = "cached"
                /\ req'[r].data = req[r].data
                /\ req'[r].made = 0
                /\ UNCHANGED durable]_vars

\* A grant with a second key was answered with the entitlement another key made.
C3_Witness ==
    \E r \in Reqs, q \in Reqs :
        /\ SkuType(req[r].skuId) = "durable" /\ Done(r) /\ req[r].resp = "cached"
        /\ req[q].made # 0 /\ req[q].key # req[r].key
        /\ req[r].data.id = req[q].made /\ req[r].made = 0
        /\ Len(entitlements) = 1 /\ Len(ledger) = 1

SameRefund(p, q) ==
    /\ req[p].kind = "refund" /\ req[q].kind = "refund"
    /\ req[p].provider = req[q].provider /\ req[p].orderId = req[q].orderId
    /\ req[p].items = req[q].items

\* Units granted minus units spent (a spend entry carries a negative quantity).
UnitsLeft(led, e) == SumQuantity(led, e, "grant") + SumQuantity(led, e, "spend")

AuditsOf(orderId) == {i \in DOMAIN audit : audit[i].resourceId = orderId}

\* C4: two concurrent deliveries of the refund of one order whose consumable
\* was fully spent end with one clawback entry (quantity and balanceAfter minus
\* the refunded quantity), the order refunded, one audit record, and one of the
\* deliveries short-circuited.
C4_ConcurrentRefundOnce ==
    \A p \in Reqs, q \in Reqs :
        (/\ p < q /\ SameRefund(p, q) /\ p \in req[q].conc /\ Done(p) /\ Done(q)
         /\ req[p].row # 0 /\ req[q].row = req[p].row /\ Len(req[p].items) = 1)
        => \A e \in DOMAIN entitlements :
              (/\ entitlements[e].orderId = req[p].row
               /\ entitlements[e].skuId = req[p].items[1].skuId
               /\ SkuType(entitlements[e].skuId) = "consumable"
               /\ UnitsLeft(ledger, e) = 0)
              => /\ Cardinality(ClawbacksOf(ledger, e)) = 1
                 /\ \A i \in ClawbacksOf(ledger, e) :
                       /\ ledger[i].quantity = 0 - req[p].items[1].quantity
                       /\ ledger[i].balanceAfter = 0 - req[p].items[1].quantity
                 /\ orders[req[p].row].status = "refunded"
                 /\ Cardinality(AuditsOf(req[p].row)) = 1
                 /\ {req[p].resp, req[q].resp} =
                       {"Refund processed successfully", "Already refunded"}

C6_SpentConsumableClawback ==
    [][\A r \in Reqs :
          (req[r].pc = "handleRefund" /\ req'[r].pc = "done" /\ Len(req[r].items) = 1) =>
             \A e \in DOMAIN entitlements :
                (/\ entitlements[e].orderId = req[r].row
                 /\ entitlements[e].skuId = req[r].items[1].skuId
                 /\ entitlements[e].status = "active"
                 /\ SkuType(entitlements[e].skuId) = "consumable"
                 /\ UnitsLeft(ledger, e) <= 0)
                => /\ Cardinality(ClawbacksOf(ledger', e)) = 1
                   /\ \A i \in ClawbacksOf(ledger', e) :
                         /\ ledger'[i].quantity = 0 - req[r].items[1].quantity
                         /\ ledger'[i].balanceAfter =
                               UnitsLeft(ledger, e) - req[r].items[1].quantity
                   /\ entitlements'[e].status = "revoked"]_vars

\* C7: every consumable entitlement revoked by a refund after units of it were
\* spent has a clawback entry.
C7_SpentRefundLeavesDebt ==
    \A e \in DOMAIN entitlements :
        (/\ SkuType(entitlements[e].skuId) = "consumable"
         /\ entitlements[e].status = "revoked"
         /\ entitlements[e].revocationReason = "refund"
         /\ SumQuantity(ledger, e, "spend") # 0)
        => ClawbacksOf(ledger, e) # {}

C9_RecordFixed ==
    [][\A k \in Keys : cache[k].id # 0 => cache'[k] \in {cache[k], NoEnt}]_vars

\* C10: a grant that arrives after a grant with the same key and arguments
\* committed makes no row and answers with the entitlement that grant made.
C10_ComputeOnce ==
    \A p \in Reqs, q \in Reqs :
        (/\ p < q /\ SameGrant(p, q) /\ req[p].made # 0 /\ p \notin req[q].conc
         /\ Done(p) /\ Done(q))
        => /\ req[q].made = 0
           /\ req[q].resp # "error"
           /\ req[q].data.id = req[p].made

\* C11: a refund invocation that fails, at any item or at the audit record,
\* leaves orders, entitlements, ledger and audit as they were before it.
C11_RefundAllOrNothing ==
    [][\A r \in Reqs :
          (/\ req[r].pc = "handleRefund" /\ req'[r].pc = "done"
           /\ req'[r].resp \in {"error: tx", "error: audit"})
          => UNCHANGED <<orders, entitlements, ledger, audit>>]_vars

\* A refund failed after it had marked the order and revoked an entitlement.
C11_Witness ==
    \E r \in Reqs :
        /\ req[r].kind = "refund" /\ req[r].resp = "error: audit"
        /\ Len(req[r].items) = 1
        /\ orders[req[r].row].status = "verified"
        /\ \E e \in DOMAIN entitlements :
              /\ entitlements[e].orderId = req[r].row
              /\ entitlements[e].skuId = req[r].items[1].skuId
              /\ entitlements[e].status = "active"

\* C12: every order has its entitlement and every entitlement has exactly one
\* grant ledger entry, also after grants that failed inside the transaction.
C12_GrantAtomic ==
    /\ \A o \in DOMAIN orders :
          \E e \in DOMAIN entitlements : entitlements[e].orderId = o
    /\ \A e \in DOMAIN entitlements : Cardinality(GrantEntries({e})) = 1

\* A grant with an orderRef failed inside its transaction and another grant
\* with an orderRef committed.
C12_Witness ==
    \E r \in Reqs, q \in Reqs :
        /\ req[r].kind = "grant" /\ req[r].resp = "error: tx"
        /\ req[r].orderId # NoOrderRef
        /\ req[q].made # 0 /\ req[q].orderId # NoOrderRef

\* C13: a grant whose insert meets the unique idempotency key of a committed
\* order does not fail: it answers with the committed entitlement.
C13_ConflictIsAlreadyProcessed ==
    \A r \in Reqs :
        (/\ req[r].kind = "grant" /\ Done(r) /\ req[r].orderId # NoOrderRef
         /\ KeyTaken(req[r].key))
        => /\ req[r].resp # "error"
           /\ req[r].data.id # 0

\* C14: no grant fails because a cache read or write failed; it still answers
\* with its entitlement.
C14_CacheFailureTolerated ==
    \A r \in Reqs :
        (req[r].kind = "grant" /\ Done(r)) =>
            /\ req[r].resp # "error: redis"
            /\ (req[r].made # 0 => req[r].resp = "granted")

\* C19: a refund whose audit write fails still commits: its order is refunded.
C19_AuditFailureDoesNotBlock ==
    [][\A r \in Reqs :
          (req[r].pc = "handleRefund" /\ req'[r].resp = "error: audit")
          => orders'[req[r].row].status = "refunded"]_vars

\* C15: a grant of a SKU that does not exist or is inactive is rejected with a
\* validation failure and leaves no entitlement, ledger entry, order or
\* idempotency record.
C15_OffSaleRejected ==
    /\ \A r \in Reqs :
          (req[r].kind = "grant" /\ ~SkuActive(req[r].skuId)) =>
              /\ req[r].made = 0
              /\ Done(r) => req[r].resp = "ValidationError"
    /\ \A e \in DOMAIN entitlements : SkuActive(entitlements[e].skuId)
    /\ \A i \in DOMAIN ledger : SkuActive(ledger[i].skuId)
    /\ \A k \in Keys : cache[k].id # 0 => SkuActive(cache[k].skuId)

\* C20: a manual refund of an order that is already refunded is answered with
\* a conflict and changes no order, entitlement, ledger entry or audit record.
C20_ManualRefundConflict ==
    [][\A r \in Reqs :
          (/\ req[r].pc = "idle" /\ req'[r].kind = "manual"
           /\ req'[r].row \in DOMAIN orders
           /\ orders[req'[r].row].status = "refunded")
          => /\ req'[r].pc = "done" /\ req'[r].resp = "ConflictError"
             /\ UNCHANGED <<durable, cache>>]_vars

\* A manual refund met an order that an earlier refund had refunded.
C20_Witness ==
    \E r \in Reqs, q \in Reqs :
        /\ req[r].kind = "manual" /\ req[r].resp = "ConflictError"
        /\ q < r /\ req[q].row = req[r].row
        /\ req[q].resp \in {"Refund processed successfully", "Manual refund processed"}
        /\ orders[req[r].row].status = "refunded"
        /\ Cardinality(AuditsOf(req[r].row)) = 1

\* C16: at most one delivery of the event is executing fn under the lock at
\* any instant.
C16_LockMutualExclusion ==
    Cardinality({w \in Workers : worker[w].pc \in InFn}) <= 1

\* C17: the step that ends fn's scope, after success or a throw, leaves the
\* lock free; a delivery refused the lock runs no part of fn (it is finished at
\* once, with the tables and the processed mark as they were) and returns false.
C17_ReleaseAndSkip ==
    [][\A w \in Workers :
          /\ (worker[w].pc \in InFn /\ worker'[w].pc = "done") => ~lock'
          /\ (worker[w].pc = "idle" /\ worker'[w].pc # "idle" /\ lock)
             => /\ worker'[w].pc = "done"
                /\ worker'[w].resp = "false"
                /\ UNCHANGED <<durable, processed>>]_vars

\* C18: after a holder crashed the lock becomes free again, and a delivery
\* that acquires the lock after a holder crashed with the refund committed
\* changes no order, entitlement or ledger entry.
C18_CrashRecovery ==
    /\ ((\E w \in Workers : worker[w].pc = "crashed") /\ lock) ~> ~lock
    /\ [][\A w \in Workers :
             (worker[w].retry /\ worker'[w] # worker[w])
             => UNCHANGED <<orders, entitlements, ledger>>]_vars

\* The items an order's grant delivered: the SKU of each of its entitlements,
\* one unit (the grant's ledger quantity).
RECURSIVE GrantedItems(_, _)
GrantedItems(ents, orderId) ==
    IF ents = <<>> THEN <<>>
    ELSE (IF Head(ents).orderId = orderId
          THEN <<[skuId |-> Head(ents).skuId, quantity |-> 1]>> ELSE <<>>)
         \o GrantedItems(Tail(ents), orderId)

\* C21: the manual refund of an order leaves the order, the entitlements and
\* the ledger as the webhook refund of the order's granted items would leave
\* them from the same state.
C21_ManualAsWebhook ==
    [][\A r \in Reqs :
          (req[r].kind = "manual" /\ req[r].pc = "handleRefund" /\ req'[r].pc = "done")
          => LET orderId == req[r].row
                 byWebhook == RefundItems([ents |-> entitlements, led |-> ledger],
                                          GrantedItems(entitlements, orderId),
                                          orderId, orders[orderId].userId)
             IN /\ orders' = MarkRefunded(orders, orderId)
                /\ entitlements' = byWebhook.ents
                /\ ledger' = byWebhook.led]_vars

\* C22: no order leaves refunded or failed, and an order becomes refunded
\* only from verified.
C22_OrderStatusForward ==
    [][\A o \in DOMAIN orders :
          /\ orders[o].status \in {"refunded", "failed"}
             => orders'[o].status = orders[o].status
          /\ (orders'[o].status = "refunded" /\ orders[o].status # "refunded")
             => orders[o].status = "verified"]_vars

\* Two refunds ran on one order, a manual one among them: it stayed refunded.
C22_Witness ==
    \E o \in DOMAIN orders, r \in Reqs :
        /\ orders[o].status = "refunded"
        /\ Cardinality(AuditsOf(o)) = 2
        /\ req[r].kind = "manual" /\ req[r].row = o
        /\ req[r].resp = "Manual refund processed"

\* C27: a grant whose key is in the idempotency cache is answered with the
\* cached record and writes no order, entitlement, ledger entry, audit record
\* or cache record.
C27_CacheHitWritesNothing ==
    [][\A r \in Reqs :
          (/\ req[r].pc = "idle" /\ req'[r].kind = "grant"
           /\ cache[req'[r].key].id # 0)
          => /\ req'[r].pc = "done" /\ req'[r].resp = "cached"
             /\ req'[r].data = cache[req'[r].key]
             /\ req'[r].made = 0
             /\ UNCHANGED <<durable, cache>>]_vars

\* A grant was answered from the cache with the record of a grant of another SKU.
C27_Witness ==
    \E r \in Reqs, q \in Reqs :
        /\ req[r].kind = "grant" /\ Done(r) /\ req[r].resp = "cached"
        /\ q < r /\ req[q].key = req[r].key /\ req[q].made # 0
        /\ req[r].data.id = req[q].made
        /\ req[r].data.skuId # req[r].skuId
        /\ Len(entitlements) = 1

\* C28: a grant of a consumable SKU with a key no other request uses is
\* answered with a new entitlement (and its grant ledger entry), also when the
\* user has an active entitlement of the SKU.
C28_ConsumableGrantedAgain ==
    \A r \in Reqs :
        (/\ req[r].kind = "grant" /\ Done(r)
         /\ SkuType(req[r].skuId) = "consumable"
         /\ \A q \in Reqs \ {r} : req[q].key # req[r].key)
        => /\ req[r].made # 0
           /\ req[r].resp = "granted"
           /\ Cardinality(GrantEntries({req[r].made})) = 1

\* C29: the refund of an active consumable entitlement with units left revokes
\* it (reason refund) and appends no clawback entry.
C29_UnspentConsumableRevoked ==
    [][\A r \in Reqs :
          (req[r].pc = "handleRefund" /\ req'[r].pc = "done" /\ Len(req[r].items) = 1
           /\ req'[r].resp = "Refund processed successfully") =>
             \A e \in DOMAIN entitlements :
                (/\ entitlements[e].orderId = req[r].row
                 /\ entitlements[e].skuId = req[r].items[1].skuId
                 /\ entitlements[e].status = "active"
                 /\ SkuType(entitlements[e].skuId) = "consumable"
                 /\ UnitsLeft(ledger, e) > 0)
                => /\ entitlements'[e].status = "revoked"
                   /\ entitlements'[e].revocationReason = "refund"
                   /\ ClawbacksOf(ledger', e) = ClawbacksOf(ledger, e)
                   /\ ledger' = ledger]_vars

\* An unspent consumable entitlement was revoked by the refund of its order.
C29_Witness ==
    \E e \in DOMAIN entitlements, r \in Reqs :
        /\ SkuType(entitlements[e].skuId) = "consumable"
        /\ entitlements[e].status = "revoked"
        /\ req[r].kind = "refund" /\ req[r].resp = "Refund processed successfully"
        /\ req[r].row = entitlements[e].orderId
        /\ Len(req[r].items) = 1 /\ req[r].items[1].skuId = entitlements[e].skuId
        /\ SumQuantity(ledger, e, "spend") = 0
        /\ ClawbacksOf(ledger, e) = {}

EntriesOf(led, e) == {i \in DOMAIN led : led[i].entitlementId = e}

\* C30: the refund of an active entitlement of a durable SKU revokes it, with
\* revokedAt set and reason refund, and appends no ledger entry for it.
C30_DurableRevoked ==
    [][\A r \in Reqs :
          (req[r].pc = "handleRefund" /\ req'[r].pc = "done" /\ Len(req[r].items) = 1
           /\ req'[r].resp = "Refund processed successfully") =>
             \A e \in DOMAIN entitlements :
                (/\ entitlements[e].orderId = req[r].row
                 /\ entitlements[e].skuId = req[r].items[1].skuId
                 /\ entitlements[e].status = "active"
                 /\ SkuType(entitlements[e].skuId) = "durable")
                => /\ entitlements'[e].status = "revoked"
                   /\ entitlements'[e].revokedAt # ""
                   /\ entitlements'[e].revocationReason = "refund"
                   /\ EntriesOf(ledger', e) = EntriesOf(ledger, e)]_vars

\* A durable entitlement was revoked by the refund of its order; its only
\* ledger entry is the grant.
C30_Witness ==
    \E e \in DOMAIN entitlements, r \in Reqs :
        /\ SkuType(entitlements[e].skuId) = "durable"
        /\ entitlements[e].status = "revoked"
        /\ req[r].kind = "refund" /\ req[r].resp = "Refund processed successfully"
        /\ req[r].row = entitlements[e].orderId
        /\ Len(req[r].items) = 1 /\ req[r].items[1].skuId = entitlements[e].skuId
        /\ Cardinality(EntriesOf(ledger, e)) = 1

\* C23: a refresh request that presents a token after the revoke endpoint
\* revoked it is rejected and issues no token.
C23_RevokedTokenRejected ==
    \A i \in DOMAIN authLog, j \in DOMAIN authLog :
        (/\ i < j
         /\ authLog[i].op = "revoke" /\ authLog[i].resp = "Token revoked successfully"
         /\ authLog[j].op = "refresh" /\ authLog[j].token = authLog[i].token)
        => authLog[j].resp = "UnauthorizedError" /\ authLog[j].issued = 0

\* C24: a user never ends with zero linked identities.
C24_NeverZeroIdentities ==
    account.registered => account.identities # {}

\* C25: a save with an expectedVersion that updates the progression raises its
\* version by exactly 1, and no other save that presented the same
\* expectedVersion has updated it.
C25_VersionLocking ==
    [][\A q \in SaveReqs :
          (saveReq[q].pc = "update" /\ saveReq'[q].pc = "done")
          => /\ (saveReq'[q].resp = "updated" /\ saveReq[q].expected # 0)
                => progression'.version = progression.version + 1
             /\ \A o \in SaveReqs \ {q} :
                   ~(/\ saveReq[q].expected # 0
                     /\ saveReq[o].expected = saveReq[q].expected
                     /\ saveReq[o].resp = "updated"
                     /\ saveReq'[q].resp = "updated")]_vars

\* The item was draft, then scanning, then pending_review.
Reviewed(path) ==
    \E a \in DOMAIN path, b \in DOMAIN path, c \in DOMAIN path :
        /\ a < b /\ b < c
        /\ path[a] = "draft" /\ path[b] = "scanning" /\ path[c] = "pending_review"

\* C26: an item becomes published only after draft, scanning and
\* pending_review; a publish request turns only a draft item to scanning and
\* rejects an item in another status without changing it.
C26_UgcWorkflow ==
    [][/\ (ugc' # ugc /\ ugc'.status = "published") => Reviewed(ugc.path)
       /\ \A q \in UgcReqs :
             /\ (ugcReq[q].pc = "idle" /\ ugcReq'[q].pc # "idle"
                 /\ ugc.status \notin {"none", "draft"})
                => ugcReq'[q].resp = "BadRequestError" /\ ugc' = ugc
             /\ (ugcReq[q].pc = "update" /\ ugcReq'[q].pc = "done")
                => ugc.status = "draft" /\ ugc'.status = "scanning"]_vars

\* C31: every ledger entry with a balanceAfter below zero is a clawback.
C31_NegativeOnlyClawback ==
    \A i \in DOMAIN ledger :
        ledger[i].balanceAfter < 0 => ledger[i].changeType = "clawback"

\* The ledger holds a grant entry and a spend entry that used the unit up, and
\* the entitlement's order was refunded.
C31_Witness ==
    \E e \in DOMAIN entitlements, i \in DOMAIN ledger, j \in DOMAIN ledger :
        /\ ledger[i].entitlementId = e /\ ledger[i].changeType = "grant"
        /\ ledger[j].entitlementId = e /\ ledger[j].changeType = "spend"
        /\ ledger[j].balanceAfter = 0
        /\ entitlements[e].revocationReason = "refund"

\* The audit records of the grant that made entitlement e.
GrantAuditsOf(e) ==
    {i \in DOMAIN audit : audit[i].resourceType = "entitlement" /\ audit[i].resourceId = e}

\* C32: every grant that committed an entitlement left exactly one audit
\* record of it.
C32_GrantAudited ==
    \A r \in Reqs :
        (req[r].kind = "grant" /\ req[r].made # 0)
        => Cardinality(GrantAuditsOf(req[r].made)) = 1

\* C33: no step removes an order, an entitlement or a ledger entry, and no
\* step changes a ledger entry.
C33_AppendOnly ==
    [][/\ Len(orders') >= Len(orders)
       /\ Len(entitlements') >= Len(entitlements)
       /\ Len(ledger') >= Len(ledger)
       /\ \A i \in DOMAIN ledger : ledger'[i] = ledger[i]]_vars

\* A refund revoked an entitlement that has a grant and a spend entry.
C33_Witness ==
    \E e \in DOMAIN entitlements, r \in Reqs :
        /\ req[r].kind = "refund" /\ req[r].resp = "Refund processed successfully"
        /\ entitlements[e].orderId = req[r].row
        /\ entitlements[e].status = "revoked"
        /\ Cardinality(EntriesOf(ledger, e)) = 2

\* A spend of entitlement e committed after refund r's reads.
SpentSince(r, e) ==
    Cardinality(EntriesOf(ledger, e)) > Cardinality(EntriesOf(req[r].snap, e))

\* C34: when a spend of a consumable entitlement committed while the refund's
\* transaction was open, the refund that revokes the entitlement counts the
\* spend: with no unit left it writes the clawback, and every entry's
\* balanceAfter is still the running sum of its entitlement's quantities.
C34_ConcurrentSpendAccounted ==
    [][\A r \in Reqs, e \in DOMAIN entitlements :
          (/\ req[r].pc = "refundWrites" /\ req'[r].pc = "done"
           /\ entitlements[e].orderId = req[r].row
           /\ entitlements[e].status = "active" /\ entitlements'[e].status = "revoked"
           /\ SkuType(entitlements[e].skuId) = "consumable"
           /\ SpentSince(r, e))
          => /\ UnitsLeft(ledger, e) <= 0 => ClawbacksOf(ledger', e) # {}
             /\ \A i \in DOMAIN ledger' :
                   ledger'[i].balanceAfter
                     = Balance(SubSeq(ledger', 1, i), ledger'[i].entitlementId)]_vars

\* C35: a refunded order has no active entitlement.
C35_RefundedOrderNothingActive ==
    \A o \in DOMAIN orders, e \in DOMAIN entitlements :
        (orders[o].status = "refunded" /\ entitlements[e].orderId = o)
        => entitlements[e].status # "active"

\* The requests whose handleRefund committed for order o.
RefundsOf(o) ==
    {r \in Reqs : /\ req[r].kind \in {"refund", "manual"} /\ Done(r) /\ req[r].row = o
                  /\ req[r].resp \in {"Refund processed successfully",
                                      "Manual refund processed"}}

C37_RefundFrame ==
    [][\A r \in Reqs :
          /\ (req[r].pc = "handleRefund" /\ req'[r].pc = "done")
             => LET o == req[r].row
                IN /\ cache' = cache
                   /\ DOMAIN orders' = DOMAIN orders
                   /\ \A i \in DOMAIN orders : i # o => orders'[i] = orders[i]
                   /\ [orders'[o] EXCEPT !.status = orders[o].status,
                                         !.refundedAt = orders[o].refundedAt] = orders[o]
                   /\ DOMAIN entitlements' = DOMAIN entitlements
                   /\ \A e \in DOMAIN entitlements :
                         entitlements[e].orderId # o => entitlements'[e] = entitlements[e]
                   /\ Len(ledger') >= Len(ledger)
                   /\ \A i \in DOMAIN ledger : ledger'[i] = ledger[i]
                   /\ \A i \in DOMAIN ledger' \ DOMAIN ledger :
                         entitlements[ledger'[i].entitlementId].orderId = o
          /\ (req[r].pc = "idle" /\ req'[r].resp = "Order not found, skipped")
             => UNCHANGED <<durable, cache>>]_vars

\* A refund committed for one of two orders; the other order is still verified
\* and its entitlement still active.
C37_Witness ==
    \E r \in Reqs, o \in DOMAIN orders, e \in DOMAIN entitlements :
        /\ req[r].pc = "done" /\ req[r].resp = "Refund processed successfully"
        /\ req[r].row # o /\ orders[req[r].row].status = "refunded"
        /\ orders[o].status = "verified"
        /\ entitlements[e].orderId = o /\ entitlements[e].status = "active"
        /\ \E f \in DOMAIN entitlements :
              entitlements[f].orderId = req[r].row /\ entitlements[f].status = "revoked"

\* C38: the entitlement a grant answers with from the cache has the status the
\* entitlement table holds when the answer is made; a grant replayed after the
\* refund revoked the entitlement does not answer with an active one.
C38_ReportedStatusIsStored ==
    [][\A r \in Reqs :
          (req'[r].kind = "grant" /\ req[r].pc = "idle" /\ req'[r].pc = "done"
           /\ req'[r].data.id # 0)
          => req'[r].data.status = entitlements'[req'[r].data.id].status]_vars

\* C39: the entitlement a grant answers with is of the request's user and SKU.
C39_ReturnedBelongsToRequest ==
    \A r \in Reqs :
        (req[r].kind = "grant" /\ Done(r) /\ req[r].data.id # 0)
        => /\ req[r].data.userId = req[r].userId
           /\ req[r].data.skuId = req[r].skuId

====
